---- MODULE Spec2Model ----
(***************************************************************************)
(* Model of vector.h: RawMemory<T> (a raw block with a capacity) and       *)
(* Vector<T> (a RawMemory plus the number of live elements).               *)
(*                                                                         *)
(* The free store is a finite array of blocks indexed by address; a block  *)
(* is a sequence of slots, each either RAW (no object) or the value of a   *)
(* live T. Two Vector objects, "a" and "b", are operated on by the public  *)
(* member functions. T is a string-like element type: a moved-from T holds *)
(* the default value. T's traits (is_nothrow_move_constructible,           *)
(* is_copy_constructible) are chosen at start and never change.            *)
(*                                                                         *)
(* Every operation takes a fault index f: the f-th step of the call that   *)
(* can throw (an allocation, a T constructor, a T assignment) throws;      *)
(* f = 0 means nothing throws.                                             *)
(***************************************************************************)
EXTENDS Integers, Sequences, FiniteSets, TLC

\* ---- bounds ----
\* the largest block asked for, and the number of addresses of the free store
MaxCap == 4
MaxBlocks == 3

\* ---- constants of the model ----
Vecs == {"a", "b"}
RAW == -1
Default == 0
MovedFrom == 0
Null == 0
\* The container never inspects a T: it only constructs, assigns and destroys.
\* Two values, the default one and another, tell any two elements apart.
Val == {Default, 1}
FailPts == 0..(MaxCap + 2)
BlockIds == 1..MaxBlocks

VARIABLES heap, vec, nothrowMove, copyable, crashed, last, pushLog, rt, copied

vars == <<heap, vec, nothrowMove, copyable, crashed, last, pushLog, rt, copied>>

\* ---- the free store ----
FreeBlock == [alloc |-> FALSE, slots |-> <<>>]

NoVec == [exists |-> FALSE, buf |-> Null, cap |-> 0, size |-> 0]

Min(x, y) == IF x < y THEN x ELSE y

\* the objects of n consecutive slots of block b from offset off (0-based)
ReadRange(h, b, off, n) == [k \in 1..n |-> h[b].slots[off + k]]

\* xs stored into consecutive slots of block b from offset off
WriteRange(h, b, off, xs) ==
    IF Len(xs) = 0 THEN h
    ELSE [h EXCEPT ![b].slots =
            [k \in 1..Len(h[b].slots) |->
                IF k > off /\ k <= off + Len(xs) THEN xs[k - off] ELSE h[b].slots[k]]]

FillRange(h, b, off, n, x) == WriteRange(h, b, off, [k \in 1..n |-> x])

\* number of live objects in block b
LiveCount(h, b) ==
    IF b = Null THEN 0 ELSE Cardinality({k \in 1..Len(h[b].slots) : h[b].slots[k] # RAW})

HasFree(h) == \E i \in BlockIds : ~h[i].alloc

\* operator new: the lowest free address
Allocate(h, n) ==
    LET id == CHOOSE i \in BlockIds : ~h[i].alloc /\ \A k \in 1..(i - 1) : h[k].alloc
    IN  [h |-> [h EXCEPT ![id] = [alloc |-> TRUE, slots |-> [k \in 1..n |-> RAW]]],
         buf |-> id]

\* RawMemory(capacity): throws bad_alloc when operator new fails
RawMemoryCtor(h, n, failAlloc) ==
    IF n = 0 THEN [ok |-> TRUE, h |-> h, buf |-> Null, cap |-> 0]
    ELSE IF failAlloc \/ ~HasFree(h) THEN [ok |-> FALSE, h |-> h, buf |-> Null, cap |-> 0]
    ELSE LET al == Allocate(h, n) IN [ok |-> TRUE, h |-> al.h, buf |-> al.buf, cap |-> n]

\* ~RawMemory: operator delete(buffer_); no destructor of T runs
Deallocate(h, b) == IF b = Null THEN h ELSE [h EXCEPT ![b] = FreeBlock]

\* ---- <memory> algorithms on raw storage; j is the element whose constructor throws ----
\* a copy loop that fills the destination from its far end
UninitializedCopyNReversed(h, sb, so, n, db, do, j) ==
    IF j \in 1..n THEN [ok |-> FALSE, h |-> h, made |-> j - 1]
    ELSE [ok |-> TRUE,
          h |-> WriteRange(h, db, do, [k \in 1..n |-> h[sb].slots[so + n + 1 - k]]),
          made |-> n]

UninitializedCopyN(h, sb, so, n, db, do, j) ==
    IF j \in 1..n THEN [ok |-> FALSE, h |-> h, made |-> j - 1]
    ELSE [ok |-> TRUE, h |-> WriteRange(h, db, do, ReadRange(h, sb, so, n)), made |-> n]

UninitializedMoveN(h, sb, so, n, db, do, j) ==
    IF j \in 1..n THEN [ok |-> FALSE, h |-> FillRange(h, sb, so, j - 1, MovedFrom), made |-> j - 1]
    ELSE [ok |-> TRUE,
          h |-> FillRange(WriteRange(h, db, do, ReadRange(h, sb, so, n)), sb, so, n, MovedFrom),
          made |-> n]

UninitializedValueConstructN(h, b, off, n, j) ==
    IF j \in 1..n THEN [ok |-> FALSE, h |-> h]
    ELSE [ok |-> TRUE, h |-> FillRange(h, b, off, n, Default)]

DestroyN(h, b, off, n) == FillRange(h, b, off, n, RAW)

\* a condition that forgets the types that cannot be copied
UseMoveNothrowOnly == nothrowMove

\* ---- relocation into a new block: if constexpr (nothrow move || !copy constructible) ----
UseMove == nothrowMove \/ ~copyable

Relocate(h, sb, so, n, db, do, j) ==
    IF UseMove
    THEN LET r == UninitializedMoveN(h, sb, so, n, db, do, IF nothrowMove THEN 0 ELSE j)
         IN  [ok |-> r.ok, h |-> r.h, rc |-> 0, rm |-> r.made, cause |-> "move"]
    ELSE LET r == UninitializedCopyN(h, sb, so, n, db, do, j)
         IN  [ok |-> r.ok, h |-> r.h, rc |-> r.made, rm |-> 0, cause |-> "copy"]

\* ---- results of a call ----
\* h, vs: the free store and the objects after the call; ok: returned normally;
\* cause: what threw ("ub": the call ran into undefined behaviour and the
\* process died); rc, rm: copy / move constructions done to relocate; lost:
\* objects whose block was released while they were live; reloc: a relocation
\* into a new block was started
Done(h, vs, rc, rm, reloc) ==
    [h |-> h, vs |-> vs, ok |-> TRUE, cause |-> "none", rc |-> rc, rm |-> rm,
     lost |-> 0, reloc |-> reloc]

Threw(h, vs, cause, rc, rm, lost, reloc) ==
    [h |-> h, vs |-> vs, ok |-> FALSE, cause |-> cause, rc |-> rc, rm |-> rm,
     lost |-> lost, reloc |-> reloc]

\* ---- RawMemory ----
\* RawMemory::Swap, and RawMemory::operator=(RawMemory&&), which swaps too:
\* x takes the buffer and capacity of y
TakeData(x, y) == [x EXCEPT !.buf = y.buf, !.cap = y.cap]

\* ---- Vector: construction and destruction ----
\* Vector(): data_{0}, size_ = 0
VectorDefault == [exists |-> TRUE, buf |-> Null, cap |-> 0, size |-> 0]

\* Vector(size_t size)
VectorOfSize(h, vs, v, n, f) ==
    LET nd == RawMemoryCtor(h, n, f = 1)
    IN  IF ~nd.ok THEN Threw(h, vs, "alloc", 0, 0, 0, FALSE)
        ELSE LET vc == UninitializedValueConstructN(nd.h, nd.buf, 0, n, f - 1)
             IN  IF ~vc.ok
                 THEN Threw(Deallocate(vc.h, nd.buf), vs, "ctor", 0, 0,
                            LiveCount(vc.h, nd.buf), FALSE)
                 ELSE Done(vc.h,
                           [vs EXCEPT ![v] = [exists |-> TRUE, buf |-> nd.buf,
                                              cap |-> nd.cap, size |-> n]],
                           0, 0, FALSE)

\* a copy that takes the address of the source's block instead of its elements
VectorCopyShallow(h, other, f) ==
    [ok |-> TRUE, h |-> h, obj |-> other, cause |-> "none", lost |-> 0]

\* Vector(const Vector& other): the new object, or the exception
VectorCopy(h, other, f) ==
    LET nd == RawMemoryCtor(h, other.size, f = 1)
    IN  IF ~nd.ok THEN [ok |-> FALSE, h |-> h, obj |-> NoVec, cause |-> "alloc", lost |-> 0]
        ELSE LET cp == UninitializedCopyN(nd.h, other.buf, 0, other.size, nd.buf, 0, f - 1)
             IN  IF ~cp.ok
                 THEN [ok |-> FALSE, h |-> Deallocate(cp.h, nd.buf), obj |-> NoVec,
                       cause |-> "copy", lost |-> LiveCount(cp.h, nd.buf)]
                 ELSE [ok |-> TRUE, h |-> cp.h,
                       obj |-> [exists |-> TRUE, buf |-> nd.buf, cap |-> nd.cap,
                                size |-> other.size],
                       cause |-> "none", lost |-> 0]

VectorCopyCtor(h, vs, v, src, f) ==
    LET cp == VectorCopy(h, vs[src], f)
    IN  IF cp.ok THEN Done(cp.h, [vs EXCEPT ![v] = cp.obj], 0, 0, FALSE)
        ELSE Threw(cp.h, vs, cp.cause, 0, 0, cp.lost, FALSE)

\* a move constructor that takes the buffer and leaves the source its capacity
VectorMoveCtorKeepsCapacity(h, vs, v, src) ==
    LET o == vs[src]
    IN  Done(h, [vs EXCEPT ![v]   = [exists |-> TRUE, buf |-> o.buf, cap |-> o.cap,
                                     size |-> o.size],
                           ![src] = [o EXCEPT !.buf = Null, !.size = 0]],
             0, 0, FALSE)

\* Vector(Vector&& other): data_ starts as RawMemory(0), then swaps with other's
VectorMoveCtor(h, vs, v, src) ==
    LET me == VectorDefault
        o  == vs[src]
    IN  Done(h, [vs EXCEPT ![v]   = [TakeData(me, o) EXCEPT !.size = o.size],
                           ![src] = [TakeData(o, me) EXCEPT !.size = me.size]],
             0, 0, FALSE)

\* ~Vector: DestroyN(data_, size_), then ~RawMemory
VectorDtor(h, vs, v) ==
    LET me == vs[v]
        h1 == DestroyN(h, me.buf, 0, me.size)
    IN  [Done(Deallocate(h1, me.buf), [vs EXCEPT ![v] = NoVec], 0, 0, FALSE)
            EXCEPT !.lost = LiveCount(h1, me.buf)]

\* Vector::Swap
Swap(h, vs, v, w) ==
    LET me == vs[v]
        o  == vs[w]
    IN  Done(h, [vs EXCEPT ![v] = [TakeData(me, o) EXCEPT !.size = o.size],
                           ![w] = [TakeData(o, me) EXCEPT !.size = me.size]],
             0, 0, FALSE)

\* a move assignment that swaps the buffers and leaves the sizes where they were
MoveAssignKeepsSizes(h, vs, v, src) ==
    LET me == vs[v]
        o  == vs[src]
    IN  Done(h, [vs EXCEPT ![v] = TakeData(me, o), ![src] = TakeData(o, me)], 0, 0, FALSE)

\* operator=(Vector&& rhs): RawMemory move assignment swaps the buffers, then
\* the sizes are swapped
MoveAssign(h, vs, v, src) ==
    LET me == vs[v]
        o  == vs[src]
    IN  Done(h, [vs EXCEPT ![v]   = [TakeData(me, o) EXCEPT !.size = o.size],
                           ![src] = [TakeData(o, me) EXCEPT !.size = me.size]],
             0, 0, FALSE)

\* a copy assignment whose in-place path leaves the common prefix as it was
CopyAssignSkipsPrefix(h, vs, v, src, f) ==
    LET me  == vs[v]
        rhs == vs[src]
    IN  IF v = src THEN Done(h, vs, 0, 0, FALSE)
        ELSE IF rhs.size > me.cap
        THEN LET cp == VectorCopy(h, rhs, f)
             IN  IF ~cp.ok THEN Threw(cp.h, vs, cp.cause, 0, 0, cp.lost, FALSE)
                 ELSE Done(Deallocate(DestroyN(cp.h, me.buf, 0, me.size), me.buf),
                           [vs EXCEPT ![v] = cp.obj], 0, 0, FALSE)
        ELSE IF rhs.size < me.size
        THEN Done(DestroyN(h, me.buf, rhs.size, me.size - rhs.size),
                  [vs EXCEPT ![v].size = rhs.size], 0, 0, FALSE)
        ELSE LET cp == UninitializedCopyN(h, rhs.buf, me.size, rhs.size - me.size,
                                          me.buf, me.size, f)
             IN  IF ~cp.ok THEN Threw(cp.h, vs, "copy", 0, 0, 0, FALSE)
                 ELSE Done(cp.h, [vs EXCEPT ![v].size = rhs.size], 0, 0, FALSE)

\* a copy assignment that always copies into a new block and swaps
CopyAssignAlwaysSwaps(h, vs, v, src, f) ==
    LET me == vs[v]
        cp == VectorCopy(h, vs[src], f)
    IN  IF v = src THEN Done(h, vs, 0, 0, FALSE)
        ELSE IF ~cp.ok THEN Threw(cp.h, vs, cp.cause, 0, 0, cp.lost, FALSE)
        ELSE LET h1 == DestroyN(cp.h, me.buf, 0, me.size)
             IN  [Done(Deallocate(h1, me.buf), [vs EXCEPT ![v] = cp.obj], 0, 0, FALSE)
                     EXCEPT !.lost = LiveCount(h1, me.buf)]

\* operator=(const Vector& rhs)
CopyAssign(h, vs, v, src, f) ==
    LET me  == vs[v]
        rhs == vs[src]
    IN  IF v = src THEN Done(h, vs, 0, 0, FALSE)
        ELSE IF rhs.size > me.cap
        THEN LET cp == VectorCopy(h, rhs, f)
             IN  IF ~cp.ok THEN Threw(cp.h, vs, cp.cause, 0, 0, cp.lost, FALSE)
                 ELSE LET h1 == DestroyN(cp.h, me.buf, 0, me.size)
                      IN  [Done(Deallocate(h1, me.buf), [vs EXCEPT ![v] = cp.obj], 0, 0, FALSE)
                              EXCEPT !.lost = LiveCount(h1, me.buf)]
        ELSE LET pre == Min(me.size, rhs.size)
             IN  IF f \in 1..pre
                 THEN Threw(WriteRange(h, me.buf, 0, ReadRange(h, rhs.buf, 0, f - 1)),
                            vs, "assign", 0, 0, 0, FALSE)
                 ELSE LET h1 == WriteRange(h, me.buf, 0, ReadRange(h, rhs.buf, 0, pre))
                      IN  IF rhs.size < me.size
                          THEN Done(DestroyN(h1, me.buf, rhs.size, me.size - rhs.size),
                                    [vs EXCEPT ![v].size = rhs.size], 0, 0, FALSE)
                          ELSE LET cp == UninitializedCopyN(h1, rhs.buf, me.size,
                                                            rhs.size - me.size,
                                                            me.buf, me.size, f - pre)
                               IN  IF ~cp.ok THEN Threw(cp.h, vs, "copy", 0, 0, 0, FALSE)
                                   ELSE Done(cp.h, [vs EXCEPT ![v].size = rhs.size],
                                             0, 0, FALSE)

\* ---- Vector: capacity and size ----
\* the number of steps of Reserve(n) that can throw
ReserveSteps(me, n) == IF n <= me.cap THEN 0 ELSE 1 + me.size

\* a Reserve that allocates a block one larger than asked for
ReserveRoundsUp(h, vs, v, n, f) ==
    LET me == vs[v]
    IN  IF n <= me.cap THEN Done(h, vs, 0, 0, FALSE)
        ELSE LET nd == RawMemoryCtor(h, n + 1, f = 1)
             IN  IF ~nd.ok THEN Threw(h, vs, "alloc", 0, 0, 0, FALSE)
                 ELSE LET rl == Relocate(nd.h, me.buf, 0, me.size, nd.buf, 0, f - 1)
                      IN  IF ~rl.ok
                          THEN Threw(Deallocate(rl.h, nd.buf), vs, rl.cause, rl.rc, rl.rm,
                                     LiveCount(rl.h, nd.buf), TRUE)
                          ELSE Done(Deallocate(DestroyN(rl.h, me.buf, 0, me.size), me.buf),
                                    [vs EXCEPT ![v] = TakeData(me, nd)], rl.rc, rl.rm, TRUE)

\* a Reserve that destroys the elements instead of relocating them
ReserveDropsElements(h, vs, v, n, f) ==
    LET me == vs[v]
    IN  IF n <= me.cap THEN Done(h, vs, 0, 0, FALSE)
        ELSE LET nd == RawMemoryCtor(h, n, f = 1)
             IN  IF ~nd.ok THEN Threw(h, vs, "alloc", 0, 0, 0, FALSE)
                 ELSE Done(Deallocate(DestroyN(nd.h, me.buf, 0, me.size), me.buf),
                           [vs EXCEPT ![v] = [TakeData(me, nd) EXCEPT !.size = 0]],
                           0, 0, TRUE)

\* Reserve(new_capacity)
Reserve(h, vs, v, n, f) ==
    LET me == vs[v]
    IN  IF n <= me.cap THEN Done(h, vs, 0, 0, FALSE)
        ELSE LET nd == RawMemoryCtor(h, n, f = 1)
             IN  IF ~nd.ok THEN Threw(h, vs, "alloc", 0, 0, 0, FALSE)
                 ELSE LET rl == Relocate(nd.h, me.buf, 0, me.size, nd.buf, 0, f - 1)
                      IN  IF ~rl.ok
                          THEN Threw(Deallocate(rl.h, nd.buf), vs, rl.cause, rl.rc, rl.rm,
                                     LiveCount(rl.h, nd.buf), TRUE)
                          ELSE LET h1 == DestroyN(rl.h, me.buf, 0, me.size)
                               IN  [Done(Deallocate(h1, me.buf),
                                         [vs EXCEPT ![v] = TakeData(me, nd)],
                                         rl.rc, rl.rm, TRUE)
                                       EXCEPT !.lost = LiveCount(h1, me.buf)]

\* Resize(new_size)
Resize(h, vs, v, n, f) ==
    LET me == vs[v]
    IN  IF n > me.size
        THEN LET rs == Reserve(h, vs, v, n, f)
             IN  IF ~rs.ok THEN rs
                 ELSE LET m1 == rs.vs[v]
                          vc == UninitializedValueConstructN(rs.h, m1.buf, m1.size,
                                    n - m1.size, f - ReserveSteps(me, n))
                      IN  IF ~vc.ok
                          THEN Threw(vc.h, rs.vs, "ctor", rs.rc, rs.rm, rs.lost, rs.reloc)
                          ELSE [rs EXCEPT !.h = vc.h, !.vs[v].size = n]
        ELSE IF n < me.size
        THEN Done(DestroyN(h, me.buf, n, me.size - n), [vs EXCEPT ![v].size = n], 0, 0, FALSE)
        ELSE Done(h, [vs EXCEPT ![v].size = n], 0, 0, FALSE)

\* growth by one slot at a time
GrownCapacityByOne(me) == me.size + 1

\* the capacity of the block a full vector grows into
GrownCapacity(me) == IF me.size = 0 THEN 1 ELSE me.size * 2

\* ---- arguments ----
\* args... is forwarded by reference down to the constructor of T. An argument
\* is either a value of its own (ref = FALSE, x the value) or a reference to
\* element x of the object the call is made on (ref = TRUE); ByValue and
\* ElementRef build the two. ArgValue is what T(args...) constructs when the
\* constructor runs with the free store in state h.
ByValue(x) == [ref |-> FALSE, x |-> x]

ElementRef(i) == [ref |-> TRUE, x |-> i]

ArgValue(h, me, arg) == IF arg.ref THEN h[me.buf].slots[arg.x + 1] ELSE arg.x

\* an EmplaceBack that reads its argument after the old elements were relocated
EmplaceBackFromReadsLate(h, vs, v, arg, f) ==
    LET me == vs[v]
    IN  IF me.size = me.cap
        THEN LET nd == RawMemoryCtor(h, GrownCapacity(me), f = 1)
             IN  IF ~nd.ok THEN Threw(h, vs, "alloc", 0, 0, 0, FALSE)
                 ELSE LET rl == Relocate(nd.h, me.buf, 0, me.size, nd.buf, 0, f - 2)
                          h1 == WriteRange(rl.h, nd.buf, me.size, <<ArgValue(rl.h, me, arg)>>)
                          h2 == DestroyN(h1, me.buf, 0, me.size)
                      IN  IF ~rl.ok
                          THEN Threw(Deallocate(rl.h, nd.buf), vs, rl.cause, rl.rc, rl.rm,
                                     LiveCount(rl.h, nd.buf), TRUE)
                          ELSE Done(Deallocate(h2, me.buf),
                                    [vs EXCEPT ![v] = [TakeData(me, nd) EXCEPT
                                                          !.size = me.size + 1]],
                                    rl.rc, rl.rm, TRUE)
        ELSE IF f = 1 THEN Threw(h, vs, "ctor", 0, 0, 0, FALSE)
        ELSE Done(WriteRange(h, me.buf, me.size, <<ArgValue(h, me, arg)>>),
                  [vs EXCEPT ![v].size = me.size + 1], 0, 0, FALSE)

\* EmplaceBack(args...), args a forwarded reference
EmplaceBackFrom(h, vs, v, arg, f) ==
    LET me == vs[v]
    IN  IF me.size = me.cap
        THEN LET nd == RawMemoryCtor(h, GrownCapacity(me), f = 1)
             IN  IF ~nd.ok THEN Threw(h, vs, "alloc", 0, 0, 0, FALSE)
                 ELSE IF f = 2 THEN Threw(Deallocate(nd.h, nd.buf), vs, "ctor", 0, 0, 0, FALSE)
                 ELSE LET h1 == WriteRange(nd.h, nd.buf, me.size, <<ArgValue(nd.h, me, arg)>>)
                          rl == Relocate(h1, me.buf, 0, me.size, nd.buf, 0, f - 2)
                      IN  IF ~rl.ok
                          THEN Threw(Deallocate(rl.h, nd.buf), vs, rl.cause, rl.rc, rl.rm,
                                     LiveCount(rl.h, nd.buf), TRUE)
                          ELSE LET h2 == DestroyN(rl.h, me.buf, 0, me.size)
                               IN  [Done(Deallocate(h2, me.buf),
                                         [vs EXCEPT ![v] = [TakeData(me, nd) EXCEPT
                                                               !.size = me.size + 1]],
                                         rl.rc, rl.rm, TRUE)
                                       EXCEPT !.lost = LiveCount(h2, me.buf)]
        ELSE IF f = 1 THEN Threw(h, vs, "ctor", 0, 0, 0, FALSE)
        ELSE Done(WriteRange(h, me.buf, me.size, <<ArgValue(h, me, arg)>>),
                  [vs EXCEPT ![v].size = me.size + 1], 0, 0, FALSE)

\* an EmplaceBack that relocates the old elements before it constructs the new one
EmplaceBackRelocatesFirst(h, vs, v, val, f) ==
    LET me == vs[v]
    IN  IF me.size = me.cap
        THEN LET nd == RawMemoryCtor(h, GrownCapacity(me), f = 1)
             IN  IF ~nd.ok THEN Threw(h, vs, "alloc", 0, 0, 0, FALSE)
                 ELSE LET rl == Relocate(nd.h, me.buf, 0, me.size, nd.buf, 0, f - 2)
                      IN  IF ~rl.ok
                          THEN Threw(Deallocate(rl.h, nd.buf), vs, rl.cause, rl.rc, rl.rm,
                                     LiveCount(rl.h, nd.buf), TRUE)
                          ELSE IF f = 2
                          THEN Threw(Deallocate(rl.h, nd.buf), vs, "ctor", rl.rc, rl.rm,
                                     LiveCount(rl.h, nd.buf), TRUE)
                          ELSE LET h1 == WriteRange(rl.h, nd.buf, me.size, <<val>>)
                                   h2 == DestroyN(h1, me.buf, 0, me.size)
                               IN  [Done(Deallocate(h2, me.buf),
                                         [vs EXCEPT ![v] = [TakeData(me, nd) EXCEPT
                                                               !.size = me.size + 1]],
                                         rl.rc, rl.rm, TRUE)
                                       EXCEPT !.lost = LiveCount(h2, me.buf)]
        ELSE IF f = 1 THEN Threw(h, vs, "ctor", 0, 0, 0, FALSE)
        ELSE Done(WriteRange(h, me.buf, me.size, <<val>>),
                  [vs EXCEPT ![v].size = me.size + 1], 0, 0, FALSE)

\* EmplaceBack(args...) with arguments of their own: val is the value
\* T(args...) constructs
EmplaceBack(h, vs, v, val, f) == EmplaceBackFrom(h, vs, v, ByValue(val), f)

\* PushBack(const T&), PushBack(T&&)
PushBack(h, vs, v, val, f) == EmplaceBack(h, vs, v, val, f)

\* PushBack(const T& value), value a reference
PushBackFrom(h, vs, v, arg, f) == EmplaceBackFrom(h, vs, v, arg, f)

\* PopBack()
PopBack(h, vs, v) ==
    LET me == vs[v]
    IN  Done(DestroyN(h, me.buf, me.size - 1, 1), [vs EXCEPT ![v].size = me.size - 1],
             0, 0, FALSE)

\* T's move assignment throws only if T's move constructor may throw
MoveAssignThrows == ~nothrowMove

\* an Erase that fills the hole with the last element instead of shifting
EraseMovesLast(h, vs, v, idx, f) ==
    LET me == vs[v]
        h1 == WriteRange(h, me.buf, idx, ReadRange(h, me.buf, me.size - 1, 1))
    IN  Done(DestroyN(h1, me.buf, me.size - 1, 1),
             [vs EXCEPT ![v].size = me.size - 1], 0, 0, FALSE)

\* Erase(pos), pos = begin() + idx: std::move(cur + 1, end(), cur) assigns each
\* element to the slot on its left and leaves it moved-from
Erase(h, vs, v, idx, f) ==
    LET me    == vs[v]
        cnt   == me.size - 1 - idx
        fails == MoveAssignThrows /\ f \in 1..cnt
        k     == IF fails THEN f - 1 ELSE cnt
        h1    == IF k = 0 THEN h
                 ELSE FillRange(WriteRange(h, me.buf, idx, ReadRange(h, me.buf, idx + 1, k)),
                                me.buf, idx + k, 1, MovedFrom)
    IN  IF fails THEN Threw(h1, vs, "assign", 0, 0, 0, FALSE)
        ELSE Done(DestroyN(h1, me.buf, me.size - 1, 1),
                  [vs EXCEPT ![v].size = me.size - 1], 0, 0, FALSE)

\* return cur, where cur = begin() + dist was taken before the elements moved
EraseReturn(vs, v, idx) == [buf |-> vs[v].buf, off |-> idx]

\* the outcomes of std::move_backward(it, end() - 1, end()) when it = end(): the
\* range is inverted, which is undefined; a counting loop does nothing, a
\* pointer-comparing loop or memmove runs out of the block
UBOutcomes == {"noop", "crash"}

\* Emplace(pos, args...), pos = begin() + idx, args a forwarded reference
EmplaceFrom(h, vs, v, idx, arg, f, ub) ==
    LET me == vs[v]
    IN  IF me.size = me.cap
        THEN LET nd == RawMemoryCtor(h, GrownCapacity(me), f = 1)
             IN  IF ~nd.ok THEN Threw(h, vs, "alloc", 0, 0, 0, FALSE)
                 ELSE IF f = 2 THEN Threw(Deallocate(nd.h, nd.buf), vs, "ctor", 0, 0, 0, FALSE)
                 ELSE LET h1 == WriteRange(nd.h, nd.buf, idx, <<ArgValue(nd.h, me, arg)>>)
                          r1 == Relocate(h1, me.buf, 0, idx, nd.buf, 0, f - 2)
                          r2 == Relocate(r1.h, me.buf, idx, me.size - idx, nd.buf, idx + 1,
                                         f - 2 - idx)
                      IN  IF ~r1.ok
                          THEN Threw(Deallocate(r1.h, nd.buf), vs, r1.cause, r1.rc, r1.rm,
                                     LiveCount(r1.h, nd.buf), TRUE)
                          ELSE IF ~r2.ok
                          THEN Threw(Deallocate(r2.h, nd.buf), vs, r2.cause,
                                     r1.rc + r2.rc, r1.rm + r2.rm,
                                     LiveCount(r2.h, nd.buf), TRUE)
                          ELSE LET h2 == DestroyN(r2.h, me.buf, 0, me.size)
                               IN  [Done(Deallocate(h2, me.buf),
                                         [vs EXCEPT ![v] = [TakeData(me, nd) EXCEPT
                                                               !.size = me.size + 1]],
                                         r1.rc + r2.rc, r1.rm + r2.rm, TRUE)
                                       EXCEPT !.lost = LiveCount(h2, me.buf)]
        ELSE IF me.size # 0
        THEN IF f = 1 THEN Threw(h, vs, "ctor", 0, 0, 0, FALSE)
             ELSE IF f = 2 /\ ~nothrowMove THEN Threw(h, vs, "move", 0, 0, 0, FALSE)
             ELSE LET \* T temp{std::forward<Args>(args)...}
                      temp  == ArgValue(h, me, arg)
                      \* new (end()) T(std::forward<T>(data_[size_ - 1]))
                      h1    == FillRange(WriteRange(h, me.buf, me.size,
                                                    ReadRange(h, me.buf, me.size - 1, 1)),
                                         me.buf, me.size - 1, 1, MovedFrom)
                      \* std::move_backward(it, end() - 1, end())
                      cnt   == me.size - 1 - idx
                      fails == MoveAssignThrows /\ (f - 2) \in 1..cnt
                      k     == IF fails THEN f - 3 ELSE cnt
                      h2    == IF k <= 0 THEN h1
                               ELSE FillRange(WriteRange(h1, me.buf, me.size - k,
                                                 ReadRange(h, me.buf, me.size - 1 - k, k)),
                                              me.buf, me.size - 1 - k, 1, MovedFrom)
                  IN  IF idx = me.size /\ ub = "crash" THEN Threw(h1, vs, "ub", 0, 0, 0, FALSE)
                      ELSE IF fails THEN Threw(h2, vs, "assign", 0, 0, 0, FALSE)
                      ELSE IF MoveAssignThrows /\ f = 3 + (IF cnt > 0 THEN cnt ELSE 0)
                      THEN Threw(h2, vs, "assign", 0, 0, 0, FALSE)
                      \* *it = std::forward<T>(temp)
                      ELSE Done(WriteRange(h2, me.buf, idx, <<temp>>),
                                [vs EXCEPT ![v].size = me.size + 1], 0, 0, FALSE)
        ELSE IF f = 1 THEN Threw(h, vs, "ctor", 0, 0, 0, FALSE)
        ELSE Done(WriteRange(h, me.buf, idx, <<ArgValue(h, me, arg)>>),
                  [vs EXCEPT ![v].size = me.size + 1], 0, 0, FALSE)

\* Emplace(pos, args...) with arguments of their own
Emplace(h, vs, v, idx, val, f, ub) == EmplaceFrom(h, vs, v, idx, ByValue(val), f, ub)

\* return data_ + dist: the position dist of the block the object holds after
\* the call r
EmplaceReturn(r, v, idx) == [buf |-> r.vs[v].buf, off |-> idx]

\* Insert(pos, const T&), Insert(pos, T&&)
Insert(h, vs, v, idx, val, f, ub) == Emplace(h, vs, v, idx, val, f, ub)

\* Insert(pos, const T& value), value a reference
InsertFrom(h, vs, v, idx, arg, f, ub) == EmplaceFrom(h, vs, v, idx, arg, f, ub)

\* v[idx] = val through T& operator[](size_t): T's assignment may throw
SetElem(h, vs, v, idx, val, f) ==
    IF f = 1 THEN Threw(h, vs, "assign", 0, 0, 0, FALSE)
    ELSE Done(WriteRange(h, vs[v].buf, idx, <<val>>), vs, 0, 0, FALSE)

\* ---- addresses ----
\* The address operator new returns is unspecified, so states that differ only
\* in the addresses of the blocks are one state: after every call the block of
\* "a" is renamed 1 and the block of "b" 2.
\* the blocks listed in inv become blocks 1, 2, ...
Rename(h, vs, inv) ==
    [h  |-> [i \in BlockIds |-> h[inv[i]]],
     vs |-> [w \in Vecs |-> [vs[w] EXCEPT !.buf =
                IF @ = Null THEN Null ELSE CHOOSE j \in BlockIds : inv[j] = @]]]

\* the blocks other than ba and bb, in address order, after ba and bb
Order(ba, bb, rest) ==
    IF ba # Null THEN (IF bb # Null THEN <<ba, bb>> \o rest ELSE <<ba>> \o rest)
    ELSE IF bb # Null THEN <<Head(rest), bb>> \o Tail(rest)
    ELSE rest

Norm(h, vs) ==
    Rename(h, vs,
           Order(vs["a"].buf,
                 IF vs["b"].buf = vs["a"].buf THEN Null ELSE vs["b"].buf,
                 SelectSeq([i \in BlockIds |-> i],
                           LAMBDA i : i # vs["a"].buf /\ i # vs["b"].buf)))

\* ---- observers ----
ElemsOf(h, vs, v) == [k \in 1..vs[v].size |-> h[vs[v].buf].slots[k]]
ViewOf(h, vs, v) ==
    [exists |-> vs[v].exists, size |-> vs[v].size, cap |-> vs[v].cap,
     elems |-> ElemsOf(h, vs, v)]
Size(v) == vec[v].size
Capacity(v) == vec[v].cap
Elems(v) == ElemsOf(heap, vec, v)
View(v) == ViewOf(heap, vec, v)

\* ---- history kept for the properties ----
\* last: the call that produced the state and its outcome (the fields of its
\*       result other than the free store and the objects); vec is the object
\*       it was called on, src the other object it involved, if any; osz and
\*       ocap are the size and capacity vec had before the call
\* pushLog[v]: the values pushed onto v, the default-constructed object the
\*             program starts with, while nothing but successful PushBack calls
\*             touched v; NoLog otherwise
\* rt: an Insert of rt.val at rt.idx that found the elements rt.pre, and
\*     whether the Erase at the same index followed it
\* copied: one object was copied from the other and only mutating member
\*         functions were called since
NoLog == <<RAW>>
NoRt == [st |-> "none", vec |-> "a", idx |-> 0, val |-> 0, pre |-> <<>>]
Other(v) == CHOOSE w \in Vecs : w # v

Commit(op, v, src, r) ==
    \E n \in {Norm(r.h, r.vs)} :
        /\ heap' = n.h
        /\ vec' = n.vs
        /\ crashed' = (r.cause = "ub")
        /\ last' = [op |-> op, vec |-> v, src |-> src, ok |-> r.ok, cause |-> r.cause, rc |-> r.rc,
                    rm |-> r.rm, lost |-> r.lost, reloc |-> r.reloc,
                    osz |-> vec[v].size, ocap |-> vec[v].cap]
        /\ UNCHANGED <<nothrowMove, copyable>>

\* the fault index names a step of the call: with f # 0 the call throws
Faulted(f, r) == f = 0 \/ ~r.ok

\* a call that is no PushBack touches v (and w)
Touch(v, w) == pushLog' = [x \in Vecs |-> IF x \in {v, w} THEN NoLog ELSE pushLog[x]]

Init ==
    /\ heap = [i \in BlockIds |-> FreeBlock]
    /\ vec = [v \in Vecs |-> IF v = "a" THEN VectorDefault ELSE NoVec]
    /\ nothrowMove \in BOOLEAN
    /\ copyable \in BOOLEAN
    /\ crashed = FALSE
    /\ last = [op |-> "Vector", vec |-> "a", src |-> "a", ok |-> TRUE, cause |-> "none", rc |-> 0,
               rm |-> 0, lost |-> 0, reloc |-> FALSE, osz |-> 0, ocap |-> 0]
    /\ pushLog = [v \in Vecs |-> IF v = "a" THEN <<>> ELSE NoLog]
    /\ rt = NoRt
    /\ copied = FALSE

\* ---- the calls ----
DoDefaultCtor(v) ==
    /\ ~crashed /\ ~vec[v].exists
    /\ Commit("Vector", v, v, Done(heap, [vec EXCEPT ![v] = VectorDefault], 0, 0, FALSE))
    /\ Touch(v, v) /\ rt' = NoRt /\ copied' = FALSE

DoSizeCtor(v, n, f) ==
    /\ ~crashed /\ ~vec[v].exists
    /\ f <= n + 1
    /\ Faulted(f, VectorOfSize(heap, vec, v, n, f))
    /\ Commit("VectorOfSize", v, v, VectorOfSize(heap, vec, v, n, f))
    /\ Touch(v, v) /\ rt' = NoRt /\ copied' = FALSE

DoCopyCtor(v, src, f) ==
    /\ ~crashed /\ copyable /\ ~vec[v].exists /\ vec[src].exists
    /\ f <= vec[src].size + 1
    /\ \E r \in {VectorCopyCtor(heap, vec, v, src, f)} :
           Faulted(f, r) /\ Commit("CopyCtor", v, src, r) /\ copied' = r.ok
    /\ Touch(v, v) /\ rt' = NoRt

DoMoveCtor(v, src) ==
    /\ ~crashed /\ ~vec[v].exists /\ vec[src].exists
    /\ Commit("MoveCtor", v, src, VectorMoveCtor(heap, vec, v, src))
    /\ Touch(v, src) /\ rt' = NoRt /\ copied' = FALSE

DoDtor(v) ==
    /\ ~crashed /\ vec[v].exists
    /\ Commit("Dtor", v, v, VectorDtor(heap, vec, v))
    /\ Touch(v, v) /\ rt' = NoRt /\ copied' = FALSE

DoCopyAssign(v, src, f) ==
    /\ ~crashed /\ copyable /\ vec[v].exists /\ vec[src].exists
    /\ f <= vec[src].size + 1
    /\ \E r \in {CopyAssign(heap, vec, v, src, f)} :
           Faulted(f, r) /\ Commit("CopyAssign", v, src, r) /\ copied' = (r.ok /\ v # src)
    /\ Touch(v, v) /\ rt' = NoRt

DoMoveAssign(v, src) ==
    /\ ~crashed /\ vec[v].exists /\ vec[src].exists
    /\ Commit("MoveAssign", v, src, MoveAssign(heap, vec, v, src))
    /\ Touch(v, src) /\ rt' = NoRt /\ copied' = FALSE

DoSwap(v, w) ==
    /\ ~crashed /\ vec[v].exists /\ vec[w].exists
    /\ Commit("Swap", v, w, Swap(heap, vec, v, w))
    /\ Touch(v, w) /\ rt' = NoRt /\ copied' = FALSE

DoReserve(v, n, f) ==
    /\ ~crashed /\ vec[v].exists
    /\ f <= ReserveSteps(vec[v], n)
    /\ Faulted(f, Reserve(heap, vec, v, n, f))
    /\ Commit("Reserve", v, v, Reserve(heap, vec, v, n, f))
    /\ Touch(v, v) /\ rt' = NoRt /\ UNCHANGED copied

DoResize(v, n, f) ==
    /\ ~crashed /\ vec[v].exists
    /\ f <= n + 1
    /\ Faulted(f, Resize(heap, vec, v, n, f))
    /\ Commit("Resize", v, v, Resize(heap, vec, v, n, f))
    /\ Touch(v, v) /\ rt' = NoRt /\ UNCHANGED copied

DoPushBack(v, val, f) ==
    /\ ~crashed /\ vec[v].exists
    /\ f <= vec[v].size + 2
    /\ \E r \in {PushBack(heap, vec, v, val, f)} :
           /\ Faulted(f, r)
           /\ Commit("PushBack", v, v, r)
           /\ pushLog' = [pushLog EXCEPT ![v] =
                             IF r.ok /\ @ # NoLog THEN Append(@, val) ELSE NoLog]
    /\ rt' = NoRt /\ UNCHANGED copied

DoPopBack(v) ==
    /\ ~crashed /\ vec[v].exists /\ vec[v].size > 0
    /\ Commit("PopBack", v, v, PopBack(heap, vec, v))
    /\ Touch(v, v) /\ rt' = NoRt /\ UNCHANGED copied

DoInsert(v, idx, val, f, ub) ==
    /\ ~crashed /\ vec[v].exists
    /\ idx <= vec[v].size
    /\ ub = "crash" => (idx = vec[v].size /\ vec[v].size # 0 /\ vec[v].size < vec[v].cap /\ f = 0)
    /\ f <= vec[v].size + 2
    /\ \E r \in {Insert(heap, vec, v, idx, val, f, ub)} :
           /\ Faulted(f, r)
           /\ Commit("Insert", v, v, r)
           /\ rt' = IF r.ok
                    THEN [st |-> "ins", vec |-> v, idx |-> idx, val |-> val, pre |-> Elems(v)]
                    ELSE NoRt
    /\ Touch(v, v) /\ UNCHANGED copied

\* v.PushBack(v[i])
DoPushBackSelf(v, i) ==
    /\ ~crashed /\ vec[v].exists
    /\ i < vec[v].size
    /\ \E r \in {PushBackFrom(heap, vec, v, ElementRef(i), 0)} :
           r.ok /\ Commit("PushBackSelf", v, v, r)
    /\ Touch(v, v) /\ rt' = NoRt /\ UNCHANGED copied

\* v.Insert(v.begin() + idx, v[i])
DoInsertSelf(v, idx, i, ub) ==
    /\ ~crashed /\ vec[v].exists
    /\ i < vec[v].size /\ idx <= vec[v].size
    /\ ub = "crash" => (idx = vec[v].size /\ vec[v].size < vec[v].cap)
    /\ \E r \in {InsertFrom(heap, vec, v, idx, ElementRef(i), 0, ub)} :
           (r.ok \/ r.cause = "ub") /\ Commit("InsertSelf", v, v, r)
    /\ Touch(v, v) /\ rt' = NoRt /\ UNCHANGED copied

DoErase(v, idx, f) ==
    /\ ~crashed /\ vec[v].exists
    /\ idx < vec[v].size
    /\ f <= vec[v].size - 1 - idx
    /\ \E r \in {Erase(heap, vec, v, idx, f)} :
           /\ Faulted(f, r)
           /\ Commit("Erase", v, v, r)
           /\ rt' = IF r.ok /\ rt.st = "ins" /\ rt.vec = v /\ rt.idx = idx
                    THEN [rt EXCEPT !.st = "erased"] ELSE NoRt
    /\ Touch(v, v) /\ UNCHANGED copied

DoSetElem(v, idx, val, f) ==
    /\ ~crashed /\ vec[v].exists
    /\ idx < vec[v].size
    /\ f <= 1
    /\ Commit("SetElem", v, v, SetElem(heap, vec, v, idx, val, f))
    /\ Touch(v, v) /\ rt' = NoRt /\ UNCHANGED copied

\* no block larger than m is asked for
Within(m) == \A v \in Vecs : vec'[v].cap <= m

\* ---- one object: every member function that involves no second Vector ----
Next ==
    \/ DoDefaultCtor("a")
    \/ \E n \in 0..MaxCap, f \in FailPts : DoSizeCtor("a", n, f)
    \/ DoDtor("a")
    \/ \E n \in 0..MaxCap, f \in FailPts : DoReserve("a", n, f)
    \/ \E n \in 0..MaxCap, f \in FailPts : DoResize("a", n, f)
    \/ \E val \in Val, f \in FailPts : DoPushBack("a", val, f) /\ Within(MaxCap)
    \/ DoPopBack("a")
    \/ \E idx \in 0..MaxCap, val \in Val, f \in FailPts, ub \in UBOutcomes :
          DoInsert("a", idx, val, f, ub) /\ Within(MaxCap)
    \/ \E i \in 0..MaxCap : DoPushBackSelf("a", i) /\ Within(MaxCap)
    \/ \E idx \in 0..MaxCap, i \in 0..MaxCap, ub \in UBOutcomes :
          DoInsertSelf("a", idx, i, ub) /\ Within(MaxCap)
    \/ \E idx \in 0..MaxCap, f \in FailPts : DoErase("a", idx, f)
    \/ \E idx \in 0..MaxCap, val \in Val, f \in FailPts : DoSetElem("a", idx, val, f)

Spec == Init /\ [][Next]_vars

\* ---- two objects, with smaller blocks: copies, moves and swaps as well ----
\* Constructors and copies throw at any step; the member functions that involve
\* one object, whose faults Spec covers, run without a fault here.
MaxPairCap == 2

NextPair ==
    \/ \E v \in Vecs : DoDefaultCtor(v)
    \/ \E v \in Vecs, n \in 0..MaxPairCap, f \in FailPts : DoSizeCtor(v, n, f)
    \/ \E v \in Vecs, f \in FailPts : DoCopyCtor(v, Other(v), f)
    \/ \E v \in Vecs : DoMoveCtor(v, Other(v))
    \/ \E v \in Vecs : DoDtor(v)
    \/ \E v \in Vecs, src \in Vecs, f \in FailPts : DoCopyAssign(v, src, f)
    \/ \E v \in Vecs, src \in Vecs : DoMoveAssign(v, src)
    \/ \E v \in Vecs, w \in Vecs : DoSwap(v, w)
    \/ \E v \in Vecs, n \in 0..MaxPairCap : DoReserve(v, n, 0)
    \/ \E v \in Vecs, n \in 0..MaxPairCap : DoResize(v, n, 0)
    \/ \E v \in Vecs, val \in Val : DoPushBack(v, val, 0) /\ Within(MaxPairCap)
    \/ \E v \in Vecs : DoPopBack(v)
    \/ \E v \in Vecs, idx \in 0..MaxPairCap, val \in Val, ub \in UBOutcomes :
          DoInsert(v, idx, val, 0, ub) /\ Within(MaxPairCap)
    \/ \E v \in Vecs, idx \in 0..MaxPairCap : DoErase(v, idx, 0)
    \/ \E v \in Vecs, idx \in 0..MaxPairCap, val \in Val : DoSetElem(v, idx, val, 0)

\* a T that cannot be copied only takes the copy operations away
InitPair == Init /\ copyable

SpecPair == InitPair /\ [][NextPair]_vars

\* ---- properties ----
Mutators == {"Reserve", "Resize", "PushBack", "Insert", "Erase", "PopBack", "SetElem"}

\* C1: in every reachable state, whatever public operations led to it, every
\* object's Capacity() is at least its Size().
CapacityAtLeastSize ==
    \A v \in Vecs : vec[v].exists => Capacity(v) >= Size(v)

\* a full block of two elements has just changed hands in a move assignment
CapacityAtLeastSizeWitness ==
    /\ last.op = "MoveAssign" /\ last.src # last.vec
    /\ Size(last.vec) = 2 /\ Capacity(last.vec) = 2
    /\ Size(last.src) = 1

\* C2: between calls, also after a call that threw, exactly the slots
\* [0, size) of an object's block hold live elements and no slot of
\* [size, capacity) does.
LiveSlotsExactlyBelowSize ==
    ~crashed =>
        \A v \in Vecs : vec[v].exists =>
            \A k \in 1..vec[v].cap : (heap[vec[v].buf].slots[k] # RAW) <=> (k <= vec[v].size)

\* C3: after N successful PushBack calls on the default-constructed object,
\* Size() = N and element i is the i-th value pushed, however many blocks the
\* elements went through.
PushBackKeepsOrder ==
    \A v \in Vecs : pushLog[v] # NoLog =>
        /\ vec[v].exists
        /\ Size(v) = Len(pushLog[v])
        /\ Elems(v) = pushLog[v]

\* four pushes of differing values, so three reallocations (0 -> 1 -> 2 -> 4)
PushBackKeepsOrderWitness ==
    /\ pushLog["a"] # NoLog /\ Len(pushLog["a"]) = 4
    /\ pushLog["a"][1] # pushLog["a"][2] /\ pushLog["a"][3] # pushLog["a"][4]
    /\ Capacity("a") = 4

\* C4: a Reserve or PushBack/EmplaceBack that throws because the allocation,
\* the construction of the new element or the copy of an existing element
\* failed leaves size, capacity and elements as they were; when the new
\* element's constructor throws, no old element has been relocated yet.
StrongGuarantee ==
    [][\A v \in Vecs :
          (/\ last'.vec = v /\ last'.op \in {"Reserve", "PushBack"}
           /\ ~last'.ok /\ last'.cause \in {"alloc", "ctor", "copy"})
          => /\ ViewOf(heap', vec', v) = View(v)
             /\ last'.cause = "ctor" => (last'.rc = 0 /\ last'.rm = 0 /\ ~last'.reloc)]_vars

\* a PushBack onto a full block of two threw while copying the second element
StrongGuaranteeWitness ==
    /\ last.op = "PushBack" /\ ~last.ok /\ last.cause = "copy" /\ last.rc = 1
    /\ Size("a") = 2 /\ Capacity("a") = 2

\* C5: after a move construction or a move assignment between two distinct
\* objects the source has Size() = 0 and the destination has the size and the
\* elements the source had.
MoveEmptiesSource ==
    [][\A d \in Vecs, s \in Vecs :
          (/\ last'.op \in {"MoveCtor", "MoveAssign"}
           /\ last'.vec = d /\ last'.src = s /\ d # s)
          => /\ vec'[s].size = 0
             /\ vec'[d].size = vec[s].size
             /\ ElemsOf(heap', vec', d) = Elems(s)]_vars

\* C6: once one object has been copied from the other, a mutating member
\* function called on either leaves the size, capacity and elements of the
\* other as they were, and the two never hold the same block.
CopyIsIndependent ==
    [][/\ copied' => (vec'["a"].buf = Null \/ vec'["a"].buf # vec'["b"].buf)
       /\ \A v \in Vecs :
             (copied /\ last'.vec = v /\ last'.op \in Mutators)
             => ViewOf(heap', vec', Other(v)) = View(Other(v))]_vars

\* the copy was changed after the copy was made, and differs from the original
CopyIsIndependentWitness ==
    /\ copied /\ last.op = "SetElem" /\ last.ok
    /\ Size("a") = 2 /\ Size("b") = 2
    /\ Elems("a") # Elems("b")

\* C7: a relocation into a new block copy-constructs every element and moves
\* none if T is copy-constructible and its move constructor may throw, and
\* move-constructs every element and copies none otherwise.
RelocationPolicy ==
    [][\A v \in Vecs :
          (last'.vec = v /\ last'.reloc)
          => IF copyable /\ ~nothrowMove
             THEN last'.rm = 0 /\ (last'.ok => last'.rc = vec[v].size)
             ELSE last'.rc = 0 /\ (last'.ok => last'.rm = vec[v].size)]_vars

\* a PushBack onto a full block of two copied both elements
RelocationPolicyWitness ==
    /\ last.op = "PushBack" /\ last.ok /\ last.reloc /\ last.rc = 2 /\ last.rm = 0
    /\ Size("a") = 3

\* C8: Insert(pos, v) followed at once by Erase at the same index gives back
\* the size and the elements there were before the Insert.
InsertEraseRoundTrip ==
    rt.st = "erased" => (Size(rt.vec) = Len(rt.pre) /\ Elems(rt.vec) = rt.pre)

\* C9 as stated: an object's capacity decreases only in a move construction
\* or a move assignment.
CapacityDecreasesOnlyByMove ==
    [][\A v \in Vecs :
          (vec[v].exists /\ vec'[v].exists /\ vec'[v].cap < vec[v].cap)
          => last'.op \in {"MoveCtor", "MoveAssign"}]_vars

\* C9 as amended: no call of Reserve, Resize, PushBack, Insert, Erase, PopBack
\* or copy assignment decreases a capacity; an object's capacity decreases
\* only in a move construction, a move assignment or a Swap.
CapacityDecreasesOnlyByMoveOrSwap ==
    [][\A v \in Vecs :
          (vec[v].exists /\ vec'[v].exists /\ vec'[v].cap < vec[v].cap)
          => last'.op \in {"MoveCtor", "MoveAssign", "Swap"}]_vars

\* a copy assignment of a shorter object in place, which kept the larger block
CapacityDecreasesOnlyByMoveOrSwapWitness ==
    /\ last.op = "CopyAssign" /\ last.ok /\ last.src # last.vec
    /\ last.osz = 2 /\ last.ocap = 2
    /\ Size(last.vec) = 1 /\ Capacity(last.vec) = 2 /\ Capacity(last.src) = 1

\* C10 as stated: Size() decreases only in Resize, PopBack or Erase.
SizeDecreasesOnlyByShrinkers ==
    [][\A v \in Vecs :
          (vec[v].exists /\ vec'[v].exists /\ vec'[v].size < vec[v].size)
          => last'.op \in {"Resize", "PopBack", "Erase"}]_vars

\* C10 as amended: Size() decreases only in Resize, PopBack, Erase, a copy
\* assignment, a move (construction or assignment) or a Swap; Reserve,
\* PushBack/EmplaceBack and Insert/Emplace never decrease it.
SizeDecreasesOnlyByShrinkersOrAssignment ==
    [][\A v \in Vecs :
          (vec[v].exists /\ vec'[v].exists /\ vec'[v].size < vec[v].size)
          => last'.op \in {"Resize", "PopBack", "Erase", "CopyAssign", "MoveAssign",
                           "MoveCtor", "Swap"}]_vars

\* a copy assignment from a shorter object has made the target shorter than it
\* was
SizeDecreasesOnlyByShrinkersOrAssignmentWitness ==
    /\ last.op = "CopyAssign" /\ last.ok /\ last.src # last.vec
    /\ last.osz = 2 /\ Size(last.vec) = 1 /\ Size(last.src) = 1

\* C11: a successful Insert/Emplace at index k of [0, size] adds one to
\* Size(), puts the value at index k, keeps the elements below k and moves
\* each element from k on up by one, and returns position k of the storage
\* the object then holds.
InsertPlacesValue ==
    \A v \in Vecs, idx \in 0..MaxCap, val \in Val, ub \in UBOutcomes :
        (~crashed /\ vec[v].exists /\ idx <= Size(v)) =>
            LET r == Insert(heap, vec, v, idx, val, 0, ub)
                e == Elems(v)
            IN  r.ok =>
                  /\ r.vs[v].size = Size(v) + 1
                  /\ ElemsOf(r.h, r.vs, v) =
                        [k \in 1..(Size(v) + 1) |->
                            IF k <= idx THEN e[k] ELSE IF k = idx + 1 THEN val ELSE e[k - 1]]
                  /\ EmplaceReturn(r, v, idx) = [buf |-> r.vs[v].buf, off |-> idx]

\* C12: Erase at index k of [0, size) takes one from Size(), keeps Capacity()
\* and the block, keeps the elements below k and moves each element above k
\* down by one, destroys one object (the one in the vacated last slot), and
\* returns position k, which is end() if the last element was erased.
EraseShiftsDown ==
    \A v \in Vecs, idx \in 0..MaxCap :
        (~crashed /\ vec[v].exists /\ idx < Size(v)) =>
            LET r   == Erase(heap, vec, v, idx, 0)
                e   == Elems(v)
                ret == EraseReturn(r.vs, v, idx)
            IN  /\ r.ok
                /\ r.vs[v].size = Size(v) - 1
                /\ r.vs[v].cap = Capacity(v) /\ r.vs[v].buf = vec[v].buf
                /\ ElemsOf(r.h, r.vs, v) =
                      [k \in 1..(Size(v) - 1) |-> IF k <= idx THEN e[k] ELSE e[k + 1]]
                /\ LiveCount(r.h, vec[v].buf) = LiveCount(heap, vec[v].buf) - 1
                /\ r.h[vec[v].buf].slots[Size(v)] = RAW
                /\ ret.buf = r.vs[v].buf /\ ret.off = idx
                /\ idx = Size(v) - 1 => ret.off = r.vs[v].size

\* the middle one of three elements has been erased right after it was inserted
EraseShiftsDownWitness ==
    /\ last.op = "Erase" /\ last.ok /\ last.osz = 3 /\ Size(last.vec) = 2
    /\ rt.st = "erased" /\ rt.vec = last.vec /\ rt.idx = 1
    /\ Elems(last.vec)[1] # Elems(last.vec)[2]

\* C13: Reserve(k) with k <= Capacity() allocates nothing and changes
\* nothing; Reserve(k) with k > Capacity() makes Capacity() exactly k and
\* keeps Size() and the elements in their order.
ReserveExact ==
    \A v \in Vecs, n \in 0..MaxCap :
        (~crashed /\ vec[v].exists) =>
            LET r == Reserve(heap, vec, v, n, 0)
            IN  /\ r.ok
                /\ IF n <= Capacity(v)
                   THEN r.h = heap /\ r.vs = vec /\ ~r.reloc
                   ELSE /\ r.vs[v].cap = n
                        /\ Len(r.h[r.vs[v].buf].slots) = n
                        /\ r.vs[v].size = Size(v)
                        /\ ElemsOf(r.h, r.vs, v) = Elems(v)

\* a full block of two differing elements was reserved up to three
ReserveExactWitness ==
    /\ last.op = "Reserve" /\ last.ok /\ last.reloc
    /\ last.osz = 2 /\ last.ocap = 2
    /\ Capacity("a") = 3 /\ Size("a") = 2
    /\ Elems("a")[1] # Elems("a")[2]

\* C14 as stated: after Vector b(std::move(a)) the source has size 0 and the
\* capacity it had before, and no element was constructed, assigned or
\* destroyed.
MoveCtorKeepsSourceCapacity ==
    \A d \in Vecs :
        (~crashed /\ ~vec[d].exists /\ vec[Other(d)].exists) =>
            LET s == Other(d)
                r == VectorMoveCtor(heap, vec, d, s)
            IN  /\ r.ok /\ r.h = heap
                /\ r.vs[s].size = 0
                /\ r.vs[s].cap = Capacity(s)

\* C14 as amended: after Vector b(std::move(a)) the source has size 0 and
\* capacity 0, b has the block, the size and the capacity a had, and no
\* element was constructed, assigned or destroyed.
MoveCtorEmptiesSource ==
    \A d \in Vecs :
        (~crashed /\ ~vec[d].exists /\ vec[Other(d)].exists) =>
            LET s == Other(d)
                r == VectorMoveCtor(heap, vec, d, s)
            IN  /\ r.ok /\ r.h = heap
                /\ r.rc = 0 /\ r.rm = 0 /\ r.lost = 0
                /\ r.vs[s].exists /\ r.vs[s].size = 0
                /\ r.vs[s].cap = 0 /\ r.vs[s].buf = Null
                /\ r.vs[d] = vec[s]

\* an object holding two elements in a block of two was moved from
MoveCtorEmptiesSourceWitness ==
    /\ last.op = "MoveCtor" /\ last.ok /\ last.src # last.vec
    /\ Size(last.vec) = 2 /\ Capacity(last.vec) = 2
    /\ vec[last.src].exists /\ Size(last.src) = 0 /\ Capacity(last.src) = 0

\* C15: after a = b, a and b distinct, a has b's size and elements and b is
\* as it was; if b.Size() <= a.Capacity() no block is allocated and a keeps
\* its block and capacity, otherwise a.Capacity() becomes b.Size(). a = a
\* changes nothing.
CopyAssignCopies ==
    \A v \in Vecs, src \in Vecs :
        (~crashed /\ copyable /\ vec[v].exists /\ vec[src].exists) =>
            LET r == CopyAssign(heap, vec, v, src, 0)
            IN  /\ r.ok
                /\ IF v = src THEN r.h = heap /\ r.vs = vec
                   ELSE /\ r.vs[v].size = Size(src)
                        /\ ElemsOf(r.h, r.vs, v) = Elems(src)
                        /\ r.vs[src] = vec[src]
                        /\ ViewOf(r.h, r.vs, src) = View(src)
                        /\ IF Size(src) <= Capacity(v)
                           THEN /\ \A i \in BlockIds : r.h[i].alloc = heap[i].alloc
                                /\ r.vs[v].cap = Capacity(v) /\ r.vs[v].buf = vec[v].buf
                           ELSE r.vs[v].cap = Size(src)

\* an object of one element in a block of two was assigned two differing
\* elements in place
CopyAssignCopiesWitness ==
    /\ last.op = "CopyAssign" /\ last.ok /\ last.src # last.vec
    /\ last.osz = 1 /\ last.ocap = 2
    /\ Size(last.vec) = 2 /\ Capacity(last.vec) = 2
    /\ Elems(last.vec) = Elems(last.src)
    /\ Elems(last.vec)[1] # Elems(last.vec)[2]

\* C16: whenever Emplace(end(), args) returns, it has left the size, the
\* capacity and the elements that EmplaceBack(args) leaves from the same
\* state.
EmplaceAtEndIsEmplaceBack ==
    \A v \in Vecs, val \in Val, ub \in UBOutcomes :
        (~crashed /\ vec[v].exists) =>
            LET e == Emplace(heap, vec, v, Size(v), val, 0, ub)
                b == EmplaceBack(heap, vec, v, val, 0)
            IN  e.ok => (b.ok /\ ViewOf(e.h, e.vs, v) = ViewOf(b.h, b.vs, v))

\* C17: PushBack/EmplaceBack or Insert/Emplace called with Size() = Capacity()
\* leaves capacity 1 if the capacity was 0 and twice the capacity otherwise;
\* called with Size() < Capacity() it allocates no block and keeps the
\* capacity.
GrowthDoubles ==
    \A v \in Vecs, idx \in 0..MaxCap, val \in Val, ub \in UBOutcomes :
        (~crashed /\ vec[v].exists /\ idx <= Size(v)) =>
            \A r \in {EmplaceBack(heap, vec, v, val, 0),
                      Emplace(heap, vec, v, idx, val, 0, ub)} :
                r.ok =>
                    IF Size(v) = Capacity(v)
                    THEN /\ r.vs[v].cap = (IF Capacity(v) = 0 THEN 1 ELSE 2 * Capacity(v))
                         /\ Len(r.h[r.vs[v].buf].slots) = r.vs[v].cap
                    ELSE /\ \A i \in BlockIds : r.h[i].alloc = heap[i].alloc
                         /\ r.vs[v].cap = Capacity(v) /\ r.vs[v].buf = vec[v].buf
                         /\ ~r.reloc

\* an Insert into a full block of two has grown it to four
GrowthDoublesWitness ==
    /\ last.op = "Insert" /\ last.ok /\ last.reloc
    /\ last.osz = 2 /\ last.ocap = 2
    /\ Size("a") = 3 /\ Capacity("a") = 4

\* C18: between calls every allocated block belongs to exactly one object,
\* no call has released a block that still held a live element, and once
\* every object is destroyed no block is left allocated.
ExclusiveOwnership ==
    ~crashed =>
        /\ \A v \in Vecs, w \in Vecs :
              (v # w /\ vec[v].exists /\ vec[w].exists /\ vec[v].buf # Null)
              => vec[v].buf # vec[w].buf
        /\ \A i \in BlockIds :
              heap[i].alloc => \E v \in Vecs : vec[v].exists /\ vec[v].buf = i
        /\ last.lost = 0
        /\ (\A v \in Vecs : ~vec[v].exists) => (\A i \in BlockIds : ~heap[i].alloc)

\* C19: when PushBack/EmplaceBack or Insert/Emplace on the growth path fails
\* while copying an existing element into the new block, every element
\* constructed in the new block has been destroyed before the block is
\* released.
GrowthFailureDestroysNew ==
    (/\ last.op \in {"PushBack", "Insert"}
     /\ ~last.ok /\ last.reloc /\ last.cause = "copy")
    => last.lost = 0

\* C20: v.PushBack(v[i]) and v.Insert(pos, v[i]) insert the value element i
\* held before the call, on the growth path and with spare capacity: the call
\* leaves what the same call with a copy of that value as argument leaves.
SelfReferenceInserted ==
    \A v \in Vecs, i \in 0..MaxCap, idx \in 0..MaxCap, ub \in UBOutcomes :
        (~crashed /\ vec[v].exists /\ i < Size(v) /\ idx <= Size(v)) =>
            LET x  == Elems(v)[i + 1]
                pb == PushBackFrom(heap, vec, v, ElementRef(i), 0)
                is == InsertFrom(heap, vec, v, idx, ElementRef(i), 0, ub)
            IN  /\ pb.ok => ElemsOf(pb.h, pb.vs, v)[Size(v) + 1] = x
                /\ pb = PushBack(heap, vec, v, x, 0)
                /\ is.ok => ElemsOf(is.h, is.vs, v)[idx + 1] = x
                /\ is = Insert(heap, vec, v, idx, x, 0, ub)

\* v.PushBack(v[i]) on a full block of two differing elements, which were
\* moved into the new block after the new element was constructed
SelfReferenceInsertedWitness ==
    /\ last.op = "PushBackSelf" /\ last.ok /\ last.reloc
    /\ last.osz = 2 /\ last.rm = 2
    /\ Size("a") = 3 /\ Elems("a")[3] = 1
    /\ Elems("a")[1] # Elems("a")[2]

====
